---- MODULE Spec2Model ----
(***************************************************************************)
(* The patch ledger of x64_dbg_dbg/patches.cpp: the global map `patches`   *)
(* and the operations patchset, patchget, patchdel, patchdelrange,         *)
(* patchclear and patchenum.  Each operation is one action; its return     *)
(* value, its output parameters, the memwrite calls it issued and the      *)
(* line it returned at are kept in variables so that properties can read   *)
(* them.  The session, memory and module collaborators (DbgIsDebugging,    *)
(* memisvalidreadptr, modbasefromaddr, modnamefromaddr, modhashfromva,     *)
(* modbasefromname) are not part of patches.cpp and are modelled from the  *)
(* interface description of the specification.                             *)
(***************************************************************************)
EXTENDS Integers, Sequences, FiniteSets, TLC

\* ---------------------------------------------------------------- bounds
\* Width of `uint` in the model (the build has 32 or 64).
AddrBits == 4
\* Byte values range over 0..MaxByte.
MaxByte == 2
\* Size of each module image, in bytes.
ModSize == 3

RECURSIVE Pow2(_)
Pow2(n) == IF n = 0 THEN 1 ELSE 2 * Pow2(n - 1)

AddrSpace == Pow2(AddrBits)
\* ~0 converted to uint.
MaxAddr == AddrSpace - 1
Byte == 0 .. MaxByte
Addr == 0 .. MaxAddr

\* Unsigned arithmetic of `uint`.
UAdd(a, b) == (a + b) % AddrSpace
USub(a, b) == (a - b + AddrSpace) % AddrSpace

\* ------------------------------------------------- module collaborator
ModNames == {"app.exe", "lib.dll"}
\* The bases a module may be loaded at; app.exe is relocatable.  No image
\* covers address 0 or the top address MaxAddr.
LoadBases(m) == IF m = "app.exe" THEN {2, 6} ELSE {10}
\* Name hash of a module: distinct per module and disjoint from raw addresses.
ModHash(m) == IF m = "app.exe" THEN AddrSpace ELSE 2 * AddrSpace

\* Addresses the callers pass to patchset / patchget / patchdel.
PatchAddrs == {3, 7, 11}
\* Addresses the callers pass to patchdelrange.
RangeAddrs == {0, MaxAddr, 10, 11, 12}

VARIABLES
    patches,    \* PatchesInfo patches: key -> PATCHINFO
    base,       \* module table: module name -> current load base
    debugging,  \* DbgIsDebugging()
    pc,         \* <<function, line>> of the statement the last call ended at
    ret,        \* value returned by the last call
    out,        \* PATCHINFO copies written through patch / patcheslist
    cbsize,     \* value written through cbsize, NoSize if none
    writes,     \* memwrite calls issued by the last call, in order
    bDelAll,    \* local bDelAll of the last patchdelrange call
    nErased,    \* number of patches.erase / clear removals of the last call
    file,       \* what the last patchfile call did to the file copy
    args,       \* the pending patchfile call of the file applier's own runs
    chain,      \* history: per stored key, the call that created the record
    pair        \* history: progress of a set(addr,o,n); set(addr,n,o) pair

vars == <<patches, base, debugging, pc, ret, out, cbsize, writes, bDelAll, nErased,
          file, args, chain, pair>>

NoSize == 0 - 1
NoPair == [stage |-> 0]
Void == "void"
\* No file was touched: no copy made, no byte stored, no error text.
NoFile == [copied |-> FALSE, bytes |-> <<>>, error |-> ""]
\* No patchfile call is pending.
NoArgs == [patchlist |-> <<>>, layout |-> [va |-> 0, size |-> 0, raw |-> 0], fails |-> ""]
EmptyMap == [k \in {} |-> 0]

\* Lower-casing done by _stricmp on the names in use.
Lower(s) == IF s = "APP.EXE" THEN "app.exe" ELSE s

\* addr lies in the image of module m.
InModule(m, addr) == base[m] <= addr /\ addr < base[m] + ModSize

\* Module whose image contains addr, "" if none.
ModOf(addr) ==
    IF InModule("app.exe", addr) THEN "app.exe"
    ELSE IF InModule("lib.dll", addr) THEN "lib.dll"
    ELSE ""

modbasefromaddr(addr) == IF ModOf(addr) = "" THEN 0 ELSE base[ModOf(addr)]
modnamefromaddr(addr) == ModOf(addr)
modbasefromname(name) == IF Lower(name) \in ModNames THEN base[Lower(name)] ELSE 0
\* Answers memisvalidreadptr may give: only module images are mapped at the
\* addresses in use, and a mapped page may still be unreadable.
Readable(addr) == IF ModOf(addr) = "" THEN {FALSE} ELSE BOOLEAN
\* Reload-stable key: name hash plus module-relative offset; the address
\* itself when no module contains it.
modhashfromva(addr) ==
    IF ModOf(addr) = "" THEN addr
    ELSE ModHash(ModOf(addr)) + (addr - base[ModOf(addr)])

\* ------------------------------------------------------------ helpers
Restrict(f, S) == [k \in S |-> f[k]]
Min(S) == CHOOSE x \in S : \A y \in S : x <= y

\* std::map iteration order: ascending keys.
RECURSIVE KeySeq(_)
KeySeq(S) == IF S = {} THEN <<>> ELSE <<Min(S)>> \o KeySeq(S \ {Min(S)})

Size(P) == Cardinality(DOMAIN P)

\* ------------------------------------------------------------ patchset
\* Variant of line 33 without the memisvalidreadptr test.
CanPatchNoReadCheck(dbg, readable) == dbg
\* line 33
CanPatch(dbg, readable) == dbg /\ readable

\* Variant of line 35 that never takes the early return.
IsSelfPatchNever(oldbyte, newbyte) == FALSE
\* line 35
IsSelfPatch(oldbyte, newbyte) == oldbyte = newbyte

\* Variant of lines 37-41 that stores the absolute address.
MakePatchAbsolute(addr, oldbyte, newbyte) ==
    [mod |-> modnamefromaddr(addr), addr |-> addr,
     oldbyte |-> oldbyte, newbyte |-> newbyte]
\* lines 37-41
MakePatch(addr, oldbyte, newbyte) ==
    [mod |-> modnamefromaddr(addr), addr |-> USub(addr, modbasefromaddr(addr)),
     oldbyte |-> oldbyte, newbyte |-> newbyte]

\* Variants of line 46: comparing with the stored newbyte, and never undoing.
IsUndoOfCurrent(found, newbyte) == found.newbyte = newbyte
IsUndoNever(found, newbyte) == FALSE
\* line 46
IsUndo(found, newbyte) == found.oldbyte = newbyte

\* Variant of lines 53-54 that drops line 53.
ConsolidateOverwrite(found, newPatch) == newPatch
\* lines 53-54
Consolidate(found, newPatch) == [newPatch EXCEPT !.oldbyte = found.oldbyte]

\* History: chain[k] remembers the patchset call that inserted the record
\* at k; it is dropped as soon as the record is gone.
ChainStep(P, addr, oldbyte) ==
    [k \in DOMAIN P |->
        IF k \in DOMAIN patches THEN chain[k]
        ELSE [first |-> oldbyte, addr |-> addr, base |-> modbasefromaddr(addr)]]

\* History: stage 1 after set(addr,o,n) inserted a record, stage 2 after the
\* directly following successful set(addr,n,o).
PairStep(addr, oldbyte, newbyte, inserted, ok) ==
    IF inserted
    THEN [stage |-> 1, addr |-> addr, o |-> oldbyte, n |-> newbyte, pre |-> patches]
    ELSE IF /\ pair.stage = 1 /\ ok /\ pair.addr = addr
            /\ pair.n = oldbyte /\ pair.o = newbyte
    THEN [stage |-> 2, addr |-> addr, pre |-> pair.pre]
    ELSE NoPair

NoOutputs ==
    /\ out' = <<>>
    /\ cbsize' = NoSize
    /\ writes' = <<>>
    /\ bDelAll' = FALSE

patchset(addr, oldbyte, newbyte, readable) ==
    LET key == modhashfromva(addr)
        newPatch == MakePatch(addr, oldbyte, newbyte)
    IN  /\ IF ~CanPatch(debugging, readable)
           THEN /\ pc' = <<"patchset", 34>> /\ ret' = FALSE
                /\ patches' = patches
           ELSE IF IsSelfPatch(oldbyte, newbyte)
           THEN /\ pc' = <<"patchset", 36>> /\ ret' = TRUE
                /\ patches' = patches
           ELSE IF key \in DOMAIN patches
           THEN IF IsUndo(patches[key], newbyte)
                THEN /\ pc' = <<"patchset", 49>> /\ ret' = TRUE
                     /\ patches' = Restrict(patches, DOMAIN patches \ {key})
                ELSE /\ pc' = <<"patchset", 54>> /\ ret' = TRUE
                     /\ patches' = [patches EXCEPT ![key] = Consolidate(patches[key], newPatch)]
           ELSE /\ pc' = <<"patchset", 58>> /\ ret' = TRUE
                /\ patches' = [k \in DOMAIN patches \cup {key} |->
                                  IF k = key THEN newPatch ELSE patches[k]]
        /\ nErased' = Size(patches) - Size(Restrict(patches, DOMAIN patches \cap DOMAIN patches'))
        /\ file' = NoFile
        /\ args' = args
        /\ chain' = ChainStep(patches', addr, oldbyte)
        /\ pair' = PairStep(addr, oldbyte, newbyte, pc' = <<"patchset", 58>>, ret')
        /\ NoOutputs
        /\ UNCHANGED <<base, debugging>>

\* History kept by every call other than patchset.
Forget(P) ==
    /\ nErased' = Size(patches) - Size(P)
    /\ file' = NoFile
    /\ args' = args
    /\ chain' = Restrict(chain, DOMAIN P)
    /\ pair' = NoPair

\* ------------------------------------------------------------ patchget
\* lines 82-83
Rehydrate(rec, addr) == [rec EXCEPT !.addr = UAdd(rec.addr, modbasefromaddr(addr))]

patchget(addr, patch) ==
    LET key == modhashfromva(addr)
    IN  /\ IF ~debugging
           THEN /\ pc' = <<"patchget", 76>> /\ ret' = FALSE /\ out' = <<>>
           ELSE IF key \notin DOMAIN patches
           THEN /\ pc' = <<"patchget", 79>> /\ ret' = FALSE /\ out' = <<>>
           ELSE IF patch
           THEN /\ pc' = <<"patchget", 84>> /\ ret' = TRUE
                /\ out' = <<Rehydrate(patches[key], addr)>>
           ELSE /\ pc' = <<"patchget", 86>>
                /\ ret' = (patches[key].oldbyte # patches[key].newbyte)
                /\ out' = <<>>
        /\ cbsize' = NoSize
        /\ writes' = <<>>
        /\ bDelAll' = FALSE
        /\ Forget(patches)
        /\ UNCHANGED <<patches, base, debugging>>

\* ------------------------------------------------------------ patchdel
\* Variant of line 108 that writes at the stored module-relative address.
RestoreWriteNoBase(rec, modbase) == [addr |-> rec.addr, val |-> rec.oldbyte]
\* line 108: the memwrite of one byte.
RestoreWrite(rec, modbase) == [addr |-> UAdd(rec.addr, modbase), val |-> rec.oldbyte]

\* Variant of lines 107/138 that restores whatever the caller asked.
RestoreAlways(restore, ws) == ws
\* lines 107 and 138: if(restore) guards every memwrite.
RestoreIf(restore, ws) == IF restore THEN ws ELSE <<>>

\* Variant of lines 108-109 that keeps the record when memwrite failed.
DelEraseIfWritten(P, key, restore, wok) ==
    IF restore /\ ~wok THEN P ELSE Restrict(P, DOMAIN P \ {key})
\* lines 108-109: memwrite's result is discarded, patches.erase(found) follows.
DelErase(P, key, restore, wok) == Restrict(P, DOMAIN P \ {key})

\* Variant of line 110 reporting failure after the erase.
DelDoneRetFalse == FALSE
\* line 110
DelDoneRet == TRUE

\* wok is the result of memwrite at line 108 (only consulted by the callee).
patchdel(addr, restore, wok) ==
    LET key == modhashfromva(addr)
    IN  /\ IF ~debugging
           THEN /\ pc' = <<"patchdel", 103>> /\ ret' = FALSE
                /\ writes' = <<>> /\ patches' = patches
           ELSE IF key \notin DOMAIN patches
           THEN /\ pc' = <<"patchdel", 106>> /\ ret' = FALSE
                /\ writes' = <<>> /\ patches' = patches
           ELSE /\ pc' = <<"patchdel", 110>> /\ ret' = DelDoneRet
                /\ writes' = RestoreIf(restore,
                                 <<RestoreWrite(patches[key], modbasefromaddr(addr))>>)
                /\ patches' = DelErase(patches, key, restore, wok)
        /\ out' = <<>>
        /\ cbsize' = NoSize
        /\ bDelAll' = FALSE
        /\ Forget(patches')
        /\ UNCHANGED <<base, debugging>>

\* ------------------------------------------------------- patchdelrange
\* line 127
IsDelAll(start, end) == start = 0 /\ end = MaxAddr

\* line 136: the range test on the stored (module-relative) address.
InRange(rec, start, end) == rec.addr >= start /\ rec.addr < end

\* Variant of lines 133-144 whose loop ends after its first erase.
ErasedFirstOnly(P, delAll, start, end) ==
    LET hit == {k \in DOMAIN P : delAll \/ InRange(P[k], start, end)}
    IN  IF hit = {} THEN {} ELSE {Min(hit)}
\* lines 133-144: the keys the loop erases.
Erased(P, delAll, start, end) ==
    {k \in DOMAIN P : delAll \/ InRange(P[k], start, end)}

\* Variant of lines 128-130 that lets every range through.
SameModuleAlways(start, end) == TRUE
\* lines 128-129: start and end have the same module base.
SameModule(start, end) == modbasefromaddr(start) = modbasefromaddr(end)

RECURSIVE RestoreWrites(_, _, _)
RestoreWrites(P, ks, modbase) ==
    IF ks = <<>> THEN <<>>
    ELSE <<RestoreWrite(P[Head(ks)], modbase)>> \o RestoreWrites(P, Tail(ks), modbase)

patchdelrange(start, end, restore) ==
    LET delAll  == IsDelAll(start, end)
        modbase == modbasefromaddr(start)
        gone    == Erased(patches, delAll, USub(start, modbase), USub(end, modbase))
    IN  /\ IF ~debugging
           THEN /\ pc' = <<"patchdelrange", 126>> /\ bDelAll' = FALSE
                /\ writes' = <<>> /\ patches' = patches
           ELSE IF ~SameModule(start, end)
           THEN /\ pc' = <<"patchdelrange", 130>> /\ bDelAll' = delAll
                /\ writes' = <<>> /\ patches' = patches
           ELSE /\ pc' = <<"patchdelrange", 145>> /\ bDelAll' = delAll
                /\ writes' = RestoreIf(restore,
                                 RestoreWrites(patches, KeySeq(gone), modbase))
                /\ patches' = Restrict(patches, DOMAIN patches \ gone)
        /\ ret' = Void
        /\ out' = <<>>
        /\ cbsize' = NoSize
        /\ Forget(patches')
        /\ UNCHANGED <<base, debugging>>

\* ---------------------------------------------------------- patchclear
Null == "<null>"
\* Variant of _stricmp that distinguishes case.
SameNameExact(a, b) == a = b
\* !_stricmp(a, b)
SameName(a, b) == Lower(a) = Lower(b)
ClearArgs == {Null, "", "APP.EXE", "lib.dll"}

patchclear(mod) ==
    /\ IF mod = Null \/ mod = ""
       THEN /\ pc' = <<"patchclear", 158>>
            /\ patches' = EmptyMap
       ELSE /\ pc' = <<"patchclear", 169>>
            /\ patches' = Restrict(patches,
                   {k \in DOMAIN patches : ~SameName(patches[k].mod, mod)})
    /\ ret' = Void
    /\ NoOutputs
    /\ Forget(patches')
    /\ UNCHANGED <<base, debugging>>

\* ----------------------------------------------------------- patchenum
\* Struct sizes of the x32 build (MAX_MODULE_SIZE = 256): PATCHINFO holds
\* mod, addr, oldbyte, newbyte; LOOPSINFO holds mod, start, end, parent,
\* depth, manual.  Both are declared in headers outside patches.cpp.
SizeofPATCHINFO == 264
SizeofLOOPSINFO == 276

\* line 191
EnumSize(P) == Size(P) * SizeofLOOPSINFO

\* Variant of lines 197-199 that hands out the stored record as it is.
EnumCopyStored(rec) == rec
\* lines 197-199
EnumCopy(rec) == [rec EXCEPT !.addr = UAdd(rec.addr, modbasefromname(rec.mod))]

RECURSIVE EnumFill(_, _)
EnumFill(P, ks) ==
    IF ks = <<>> THEN <<>>
    ELSE <<EnumCopy(P[Head(ks)])>> \o EnumFill(P, Tail(ks))

patchenum(patcheslist, size) ==
    /\ IF ~debugging
       THEN /\ pc' = <<"patchenum", 186>> /\ ret' = FALSE
            /\ out' = <<>> /\ cbsize' = NoSize
       ELSE IF ~patcheslist /\ ~size
       THEN /\ pc' = <<"patchenum", 188>> /\ ret' = FALSE
            /\ out' = <<>> /\ cbsize' = NoSize
       ELSE IF ~patcheslist /\ size
       THEN /\ pc' = <<"patchenum", 192>> /\ ret' = TRUE
            /\ out' = <<>> /\ cbsize' = EnumSize(patches)
       ELSE /\ pc' = <<"patchenum", 201>> /\ ret' = TRUE
            /\ out' = EnumFill(patches, KeySeq(DOMAIN patches))
            /\ cbsize' = NoSize
    /\ writes' = <<>>
    /\ bDelAll' = FALSE
    /\ Forget(patches)
    /\ UNCHANGED <<patches, base, debugging>>

\* ----------------------------------------------------------- patchfile
\* Longest record list handed to patchfile.
MaxList == 2

\* The file image's one section: RVAs va .. va+size-1 are stored in the file
\* from offset raw on; every other RVA has no file offset.
Layouts == {[va |-> 1, size |-> 1, raw |-> 4],
            [va |-> 1, size |-> 2, raw |-> 4],
            [va |-> 1, size |-> 2, raw |-> 6],
            [va |-> 2, size |-> 1, raw |-> 6]}

\* What ConvertVAtoFileOffsetEx answers when the VA has no file offset.
NoOffset == 0

\* line 265: the file offset of virtual address va of the image loaded at
\* modbase, NoOffset when va is outside the section.
ConvertVAtoFileOffsetEx(layout, modbase, va) ==
    IF va >= modbase /\ va - modbase >= layout.va
                    /\ va - modbase < layout.va + layout.size
    THEN va - modbase - layout.va + layout.raw
    ELSE NoOffset

\* The first step of lines 243-276 that fails, "" when none does.
FailPoints == {"", "GetModuleFileNameExA", "CopyFileA", "StaticFileLoad",
               "StaticFileUnload"}

\* Variant of lines 228-234 that accepts every list.
MismatchNever(patchlist) == FALSE
\* line 230: some record of the list is not in the module of the first one.
Mismatch(patchlist) ==
    \E i \in 1 .. Len(patchlist) : ~SameName(patchlist[i].mod, patchlist[1].mod)

\* Variant of lines 262-270 whose loop stops at the first address without a
\* file offset.
ApplyUntilSkip(patchlist, layout, modbase) ==
    LET ok(i) == ConvertVAtoFileOffsetEx(layout, modbase, patchlist[i].addr) # NoOffset
        stop  == Min({i \in 1 .. Len(patchlist) : ~ok(i)} \cup {Len(patchlist) + 1})
    IN  [i \in 1 .. stop - 1 |->
            [off |-> ConvertVAtoFileOffsetEx(layout, modbase, patchlist[i].addr),
             val |-> patchlist[i].newbyte]]
\* lines 262-270: the bytes stored in the mapped file, in order; a record
\* whose address has no file offset is skipped.
RECURSIVE Apply(_, _, _)
Apply(patchlist, layout, modbase) ==
    IF patchlist = <<>> THEN <<>>
    ELSE LET ptr == ConvertVAtoFileOffsetEx(layout, modbase, Head(patchlist).addr)
         IN  (IF ptr = NoOffset THEN <<>>
              ELSE <<[off |-> ptr, val |-> Head(patchlist).newbyte]>>)
             \o Apply(Tail(patchlist), layout, modbase)

\* count is Len(patchlist); error is a buffer of the caller.  layout and
\* fails are the answers of the file helpers.
patchfile(patchlist, layout, fails) ==
    LET modname == patchlist[1].mod
        modbase == modbasefromname(modname)
        stored  == Apply(patchlist, layout, modbase)
        Exit(line, r, copied, bytes, error) ==
            /\ pc' = <<"patchfile", line>>
            /\ ret' = r
            /\ file' = [copied |-> copied, bytes |-> bytes, error |-> error]
    IN  /\ IF Len(patchlist) = 0
           THEN Exit(222, 0 - 1, FALSE, <<>>, "no patches to apply")
           ELSE IF Mismatch(patchlist)
           THEN Exit(232, 0 - 1, FALSE, <<>>, "not all patches are in module")
           ELSE IF modbase = 0
           THEN Exit(240, 0 - 1, FALSE, <<>>, "failed to get base of module")
           ELSE IF fails = "GetModuleFileNameExA"
           THEN Exit(247, 0 - 1, FALSE, <<>>, "failed to get module path of module")
           ELSE IF fails = "CopyFileA"
           THEN Exit(253, 0 - 1, FALSE, <<>>, "failed to make a copy of the original file")
           ELSE IF fails = "StaticFileLoad"
           THEN Exit(280, 0 - 1, TRUE, <<>>, "StaticFileLoad failed")
           ELSE IF fails = "StaticFileUnload"
           THEN Exit(275, 0 - 1, TRUE, stored, "StaticFileUnload failed")
           ELSE Exit(277, Len(stored), TRUE, stored, "")
        /\ out' = <<>>
        /\ cbsize' = NoSize
        /\ writes' = <<>>
        /\ bDelAll' = FALSE
        /\ nErased' = 0
        /\ pair' = NoPair
        /\ UNCHANGED <<patches, base, debugging, chain, args>>

\* Record lists as patchenum fills them now: module name in either case,
\* address at the module's current base; gone.dll is loaded no more.
FileMods == {"app.exe", "APP.EXE", "lib.dll", "gone.dll"}
FileRecs ==
    {[mod |-> m, addr |-> UAdd(modbasefromname(m), off), oldbyte |-> 0, newbyte |-> n] :
        m \in FileMods, off \in 1 .. 2, n \in {1, MaxByte}}
RECURSIVE Lists(_, _)
Lists(S, n) ==
    IF n = 0 THEN {<<>>}
    ELSE Lists(S, n - 1) \cup {<<x>> \o l : x \in S, l \in Lists(S, n - 1)}
FileLists == Lists(FileRecs, MaxList)

\* ------------------------------------------------------- environment
\* The debuggee starts or stops; the ledger is left to the caller.
DbgToggle ==
    /\ debugging' = ~debugging
    /\ pc' = <<"env", 0>>
    /\ ret' = Void
    /\ pair' = NoPair
    /\ nErased' = 0
    /\ file' = NoFile
    /\ args' = args
    /\ NoOutputs
    /\ UNCHANGED <<patches, base, chain>>

\* A module is unloaded and loaded again at another base.
ModReload(m, b) ==
    /\ b \in LoadBases(m)
    /\ b # base[m]
    /\ base' = [base EXCEPT ![m] = b]
    /\ pc' = <<"env", 0>>
    /\ ret' = Void
    /\ pair' = NoPair
    /\ nErased' = 0
    /\ file' = NoFile
    /\ args' = args
    /\ NoOutputs
    /\ UNCHANGED <<patches, debugging, chain>>

Init ==
    /\ patches = EmptyMap
    /\ base = [m \in ModNames |-> Min(LoadBases(m))]
    /\ debugging = FALSE
    /\ pc = <<"init", 0>>
    /\ ret = Void
    /\ out = <<>>
    /\ cbsize = NoSize
    /\ writes = <<>>
    /\ bDelAll = FALSE
    /\ nErased = 0
    /\ file = NoFile
    /\ args = NoArgs
    /\ chain = EmptyMap
    /\ pair = NoPair

Next ==
    \/ \E addr \in PatchAddrs, o \in Byte, n \in Byte :
          \E r \in Readable(addr) : patchset(addr, o, n, r)
    \/ \E addr \in PatchAddrs, p \in BOOLEAN : patchget(addr, p)
    \/ \E addr \in PatchAddrs, r \in BOOLEAN : \E wok \in (IF r THEN BOOLEAN ELSE {TRUE}) : patchdel(addr, r, wok)
    \/ \E s \in RangeAddrs, e \in RangeAddrs, r \in BOOLEAN : patchdelrange(s, e, r)
    \/ \E mod \in ClearArgs : patchclear(mod)
    \/ \E l \in BOOLEAN, c \in BOOLEAN : patchenum(l, c)
    \/ \E f \in {"", "CopyFileA"} :
          patchfile(<<[mod |-> "app.exe", addr |-> UAdd(base["app.exe"], 1),
                       oldbyte |-> 0, newbyte |-> 1]>>,
                    [va |-> 1, size |-> 1, raw |-> 4], f)
    \/ DbgToggle
    \/ \E m \in ModNames, b \in Addr : ModReload(m, b)

\* The file applier on its own: it reads no ledger state, so its runs start
\* with an empty ledger, the modules at any of their bases, and one
\* patchfile call pending.
InitFile ==
    /\ patches = EmptyMap
    /\ base \in [ModNames -> Addr]
    /\ \A m \in ModNames : base[m] \in LoadBases(m)
    /\ debugging \in BOOLEAN
    /\ pc = <<"init", 0>>
    /\ ret = Void
    /\ out = <<>>
    /\ cbsize = NoSize
    /\ writes = <<>>
    /\ bDelAll = FALSE
    /\ nErased = 0
    /\ file = NoFile
    /\ args \in [patchlist : FileLists, layout : Layouts, fails : FailPoints]
    /\ chain = EmptyMap
    /\ pair = NoPair

NextFile ==
    /\ pc = <<"init", 0>>
    /\ patchfile(args.patchlist, args.layout, args.fails)

\* ===================================================== properties
\* The step is a call of function f (every action of f ends at a line of f).
Called(f) == pc'[1] = f

\* C1 (as stated): after every successful set(addr, o, n) that leaves a
\* record for addr, that record's oldbyte is the oldByte of the set that
\* started the chain and its newbyte is n, the newByte of this last set.
C1_ChainAnySet ==
    [][Called("patchset") => \A addr \in PatchAddrs, o \in Byte, n \in Byte, r \in BOOLEAN :
        (/\ patchset(addr, o, n, r)
         /\ ret' = TRUE
         /\ modhashfromva(addr) \in DOMAIN patches')
        => (/\ patches'[modhashfromva(addr)].oldbyte = chain'[modhashfromva(addr)].first
            /\ patches'[modhashfromva(addr)].newbyte = n)]_vars

\* C1 (amended): the same for every successful set with oldByte # newByte:
\* the record keeps the oldByte of the first set of its chain, never an
\* intermediate value, and carries the newByte of the last such set.
C1_ChainInvariant ==
    [][(Called("patchset") /\ ret' = TRUE) =>
        \A addr \in PatchAddrs :
            modhashfromva(addr) \in DOMAIN patches' =>
                \A o \in Byte, n \in Byte, r \in BOOLEAN :
                    (o # n /\ patchset(addr, o, n, r))
                    => (/\ patches'[modhashfromva(addr)].oldbyte =
                               chain'[modhashfromva(addr)].first
                        /\ patches'[modhashfromva(addr)].newbyte = n)]_vars

\* A set has just consolidated an existing record: the chain has at least
\* two sets, and the record still carries the first set's oldByte.
C1_Witness ==
    /\ pc = <<"patchset", 54>>
    /\ \E k \in DOMAIN patches :
          /\ patches[k].oldbyte = chain[k].first
          /\ patches[k].newbyte # chain[k].first

\* C2: patchdelrange(start, end, false) with start and end in module M
\* (base B) removes exactly the records of M with offset in
\* [start-B, end-B); every other record stays, unchanged.
C2_RangeDeleteExact ==
    [][Called("patchdelrange") => \A s \in RangeAddrs, e \in RangeAddrs :
        (/\ patchdelrange(s, e, FALSE)
         /\ debugging
         /\ ModOf(s) # ""
         /\ ModOf(s) = ModOf(e))
        => \A k \in DOMAIN patches :
              IF /\ patches[k].mod = ModOf(s)
                 /\ patches[k].addr >= s - base[ModOf(s)]
                 /\ patches[k].addr < e - base[ModOf(s)]
              THEN k \notin DOMAIN patches'
              ELSE k \in DOMAIN patches' /\ patches'[k] = patches[k]]_vars

\* The write the wildcard restore owes a record: its oldbyte at the current
\* base of its module plus its offset.
OwedWrite(rec) == [addr |-> UAdd(modbasefromname(rec.mod), rec.addr), val |-> rec.oldbyte]

RECURSIVE OwedWrites(_, _)
OwedWrites(P, ks) ==
    IF ks = <<>> THEN <<>>
    ELSE <<OwedWrite(P[Head(ks)])>> \o OwedWrites(P, Tail(ks))

\* C3: patchdelrange(0, MaxAddr, true) issues, for every record, one write
\* of its oldbyte at the current base of its module plus its offset.
C3_WildcardRestores ==
    [][(patchdelrange(0, MaxAddr, TRUE) /\ debugging)
        => writes' = OwedWrites(patches, KeySeq(DOMAIN patches))]_vars

\* C4: with a session active, patchdelrange(0, MaxAddr, restore) leaves the
\* ledger empty, for either value of restore.
C4_WildcardEmpties ==
    [][Called("patchdelrange") => \A r \in BOOLEAN :
        (patchdelrange(0, MaxAddr, r) /\ debugging) => patches' = EmptyMap]_vars

\* A wildcard call has just erased (and restored) two or more records.
C4_Witness ==
    /\ pc = <<"patchdelrange", 145>>
    /\ bDelAll
    /\ Len(writes) >= 2
    /\ patches = EmptyMap

\* C5: the size query reports recordCount * sizeof(PATCHINFO), and a fill
\* call writes exactly recordCount records.
C5_EnumSizeContract ==
    /\ pc = <<"patchenum", 192>> => cbsize = Size(patches) * SizeofPATCHINFO
    /\ pc = <<"patchenum", 201>> => Len(out) = Size(patches)

\* C6 (as stated): a successful set whose newByte equals the oldbyte of the
\* record stored for addr removes that record, whatever oldByte is.
C6_UndoAnyOld ==
    [][(Called("patchset") /\ debugging) =>
        \A addr \in PatchAddrs :
            modhashfromva(addr) \in DOMAIN patches =>
                \A o \in Byte :
                    patchset(addr, o, patches[modhashfromva(addr)].oldbyte, TRUE)
                    => modhashfromva(addr) \notin DOMAIN patches']_vars

\* C6 (amended): the same for every oldByte other than newByte.
C6_UndoRemoves ==
    [][(Called("patchset") /\ debugging) =>
        \A addr \in PatchAddrs :
            modhashfromva(addr) \in DOMAIN patches =>
                \A o \in Byte \ {patches[modhashfromva(addr)].oldbyte} :
                    patchset(addr, o, patches[modhashfromva(addr)].oldbyte, TRUE)
                    => modhashfromva(addr) \notin DOMAIN patches']_vars

\* A set has just erased a record, and another record is still stored.
C6_Witness ==
    /\ pc = <<"patchset", 49>>
    /\ ret = TRUE
    /\ patches # EmptyMap

\* C7: set(addr, o, n) on an address without a record, directly followed
\* by set(addr, n, o), both successful, leaves no record for addr and
\* every other record as it was before the first set.
C7_SelfUndo ==
    pair.stage = 2 =>
        /\ modhashfromva(pair.addr) \notin DOMAIN patches
        /\ patches = pair.pre

\* The pair has completed while another record is stored.
C7_Witness ==
    /\ pair.stage = 2
    /\ pair.pre # EmptyMap

\* C8: set(addr, b, b) leaves the whole ledger as it was.
C8_NoOpPatch ==
    [][Called("patchset") => \A addr \in PatchAddrs, b \in Byte, r \in BOOLEAN :
        patchset(addr, b, b, r) => patches' = patches]_vars

\* A set(addr, b, b) has just returned success with records stored.
C8_Witness ==
    /\ pc = <<"patchset", 36>>
    /\ ret = TRUE
    /\ patches # EmptyMap

\* C9: a record set at B1+off while its module was at B1 is, with the module
\* now at B2 # B1, found by patchget(B2+off, patch); the copy carries address
\* B2+off and the stored bytes, and the stored record keeps the offset.
C9_ReloadRecognition ==
    [][Called("patchget") => \A addr \in PatchAddrs :
        \A k \in DOMAIN patches :
            (/\ patchget(addr, TRUE)
             /\ debugging
             /\ patches[k].mod # ""
             /\ chain[k].base # base[patches[k].mod]
             /\ addr = base[patches[k].mod] + (chain[k].addr - chain[k].base))
            => (/\ ret' = TRUE
                /\ out' = <<[mod |-> patches[k].mod, addr |-> addr,
                             oldbyte |-> patches[k].oldbyte,
                             newbyte |-> patches[k].newbyte]>>
                /\ patches[k].addr = chain[k].addr - chain[k].base
                /\ patches'[k] = patches[k])]_vars

\* A get has just returned the copy of a record that was set at another base.
C9_Witness ==
    /\ pc = <<"patchget", 84>>
    /\ \E k \in DOMAIN patches :
          /\ patches[k].mod # ""
          /\ chain[k].base # base[patches[k].mod]
          /\ out = <<[patches[k] EXCEPT !.addr = base[patches[k].mod] + patches[k].addr]>>
          /\ out[1].addr # chain[k].addr

\* C10: without a session, or with addr unreadable, set returns failure and
\* the ledger is unchanged, for every oldByte and newByte.  Stated by
\* contraposition: a step that returned success or changed the ledger is
\* no set(addr, o, n) made without a session or on an unreadable addr.
C10_SetFailureNoOp ==
    [][(Called("patchset") /\ ~(ret' = FALSE /\ patches' = patches)) =>
        \A addr \in PatchAddrs, o \in Byte, n \in Byte, r \in BOOLEAN :
            ~((~debugging \/ ~r) /\ patchset(addr, o, n, r))]_vars

\* A set has just failed on a ledger that holds records.
C10_Witness ==
    /\ pc = <<"patchset", 34>>
    /\ ret = FALSE
    /\ patches # EmptyMap

C12_DeleteAnySession ==
    [][Called("patchdel") =>
        \A addr \in PatchAddrs, r \in BOOLEAN, wok \in BOOLEAN :
            patchdel(addr, r, wok) =>
                IF modhashfromva(addr) \in DOMAIN patches
                THEN /\ ret' = TRUE
                     /\ patches' = Restrict(patches, DOMAIN patches \ {modhashfromva(addr)})
                ELSE /\ ret' = FALSE
                     /\ patches' = patches]_vars

\* C12 (amended): with a session active, whenever a record exists at the key
\* of addr, patchdel(addr, restore) returns true and leaves no record for
\* addr, whatever restore and the memory write's result, all other records
\* unchanged; when no record exists it returns false and changes nothing.
C12_DeleteUnconditional ==
    [][Called("patchdel") =>
        \A addr \in PatchAddrs, r \in BOOLEAN, wok \in BOOLEAN :
            patchdel(addr, r, wok) =>
                IF modhashfromva(addr) \notin DOMAIN patches
                THEN /\ ret' = FALSE
                     /\ patches' = patches
                ELSE debugging =>
                     /\ ret' = TRUE
                     /\ modhashfromva(addr) \notin DOMAIN patches'
                     /\ patches' = Restrict(patches, DOMAIN patches \ {modhashfromva(addr)})]_vars

\* C12 happens: a delete removed one record and another record stayed.
C12_Witness ==
    /\ pc = <<"patchdel", 110>>
    /\ ret = TRUE
    /\ nErased = 1
    /\ Size(patches) = 1

\* Two module names are equal when case is ignored.
EqualIgnoringCase(a, b) == a = b \/ {a, b} = {"app.exe", "APP.EXE"}

\* C13: patchclear(NULL) and patchclear("") empty the ledger whatever the
\* session state; patchclear(name) removes exactly the records whose mod
\* equals name ignoring case and leaves the others unchanged; neither form
\* writes to the debuggee's memory.
C13_ClearContract ==
    [][Called("patchclear") =>
        \A mod \in ClearArgs :
            patchclear(mod) =>
                /\ writes' = <<>>
                /\ IF mod = Null \/ mod = ""
                   THEN patches' = EmptyMap
                   ELSE /\ DOMAIN patches' \subseteq DOMAIN patches
                        /\ \A k \in DOMAIN patches :
                              IF EqualIgnoringCase(patches[k].mod, mod)
                              THEN k \notin DOMAIN patches'
                              ELSE k \in DOMAIN patches' /\ patches'[k] = patches[k]]_vars

\* C13 happens: with no session, patchclear(name) removed one module's
\* record and kept the other module's.
C13_Witness ==
    /\ pc = <<"patchclear", 169>>
    /\ ~debugging
    /\ nErased = 1
    /\ Size(patches) = 1

\* C14: a step that writes to the debuggee's memory is a patchdel or a
\* patchdelrange call made with restore = true; patchset, patchget,
\* patchclear, patchenum, patchfile and the restore = false calls never write.
C14_WritesOnlyOnRestore ==
    [][writes' # <<>> =>
        /\ Called("patchdel") \/ Called("patchdelrange")
        /\ Called("patchdel") =>
              \A addr \in PatchAddrs, wok \in BOOLEAN : ~patchdel(addr, FALSE, wok)
        /\ Called("patchdelrange") =>
              \A s \in RangeAddrs, e \in RangeAddrs : ~patchdelrange(s, e, FALSE)]_vars

\* C14 happens: a range delete with restore wrote bytes back.
C14_Witness ==
    /\ pc = <<"patchdelrange", 145>>
    /\ writes # <<>>
    /\ nErased = Len(writes)

\* The pending patchfile call has been made.
FileCalled == pc[1] = "patchfile"

\* Some record of the pending call's list names another module than the
\* first record does, case ignored.
MixedList ==
    \E i \in 1 .. Len(args.patchlist) :
        ~EqualIgnoringCase(args.patchlist[i].mod, args.patchlist[1].mod)

\* C15: patchfile given a list in which some record's module name differs,
\* ignoring case, from the first record's returns -1 and never reaches the
\* file copy.
C15_MixedListRejected ==
    (FileCalled /\ MixedList) => (ret = 0 - 1 /\ ~file.copied /\ file.bytes = <<>>)

\* C15 happens: a list naming app.exe then lib.dll was rejected although
\* every file step would have succeeded.
C15_Witness ==
    /\ pc = <<"patchfile", 232>>
    /\ args.fails = ""
    /\ Len(args.patchlist) = MaxList
    /\ args.patchlist[1].mod = "app.exe"
    /\ args.patchlist[MaxList].mod = "lib.dll"

\* The file offset of record i of the pending call's list, NoOffset if none.
FileOffsetOf(i) ==
    ConvertVAtoFileOffsetEx(args.layout, modbasefromname(args.patchlist[1].mod),
                            args.patchlist[i].addr)

\* The records of the pending call's list that have a file offset.
Translatable == {i \in 1 .. Len(args.patchlist) : FileOffsetOf(i) # NoOffset}

\* C16: when patchfile reaches the patch loop and the unload succeeds, it
\* returns the number of records whose address has a file offset; each of
\* them has its newbyte stored at its file offset, in list order; a record
\* without a file offset is skipped and the records after it are processed.
C16_SkipUntranslatable ==
    (/\ FileCalled
     /\ args.patchlist # <<>>
     /\ ~MixedList
     /\ Lower(args.patchlist[1].mod) \in ModNames
     /\ args.fails = "") =>
        /\ ret = Cardinality(Translatable)
        /\ Len(file.bytes) = Cardinality(Translatable)
        /\ \A i \in Translatable :
              file.bytes[Cardinality({h \in Translatable : h <= i})]
                  = [off |-> FileOffsetOf(i), val |-> args.patchlist[i].newbyte]

\* C16 happens: the first record had no file offset, the last one had, and
\* the call returned.
C16_Witness ==
    /\ pc = <<"patchfile", 277>>
    /\ Len(args.patchlist) = MaxList
    /\ 1 \notin Translatable
    /\ MaxList \in Translatable
    /\ ret >= 1

\* C17: a patchget, patchdel or patchenum call that returns false and a
\* patchfile call that returns -1 leave the ledger exactly as it was.
C17_FailedCallsAtomic ==
    [][(\/ /\ Called("patchget") \/ Called("patchdel") \/ Called("patchenum")
           /\ ret' = FALSE
        \/ /\ Called("patchfile")
           /\ ret' = 0 - 1)
       => patches' = patches]_vars

\* C17 happens: a delete failed (no session) while the ledger held the
\* record it was asked to remove.
C17_Witness ==
    /\ pc = <<"patchdel", 103>>
    /\ ret = FALSE
    /\ Size(patches) = 2

\* No record of the ledger has oldbyte = newbyte.
NoDegenerateRecord == \A k \in DOMAIN patches : patches[k].oldbyte # patches[k].newbyte

\* C18: in every reachable state every record has oldbyte # newbyte;
\* consequently patchget(addr, NULL) with a session active returns true
\* exactly when a record exists at the key of addr.
C18_NoDegenerate ==
    /\ []NoDegenerateRecord
    /\ [][(Called("patchget") /\ debugging) =>
            \A addr \in PatchAddrs :
                patchget(addr, FALSE) =>
                    (ret' = TRUE <=> modhashfromva(addr) \in DOMAIN patches)]_vars

\* C18 happens: with records of both modules in the ledger, one of them
\* was queried without an output buffer and reported as found.
C18_Witness ==
    /\ pc = <<"patchget", 86>>
    /\ ret = TRUE
    /\ Size(patches) = 2

\* C19 (as stated): patchdel(addr, true) on an address that has a record
\* issues exactly one write, of the record's oldbyte, at addr itself, and
\* removes the record whatever the write's result.
C19_RestoreAnySession ==
    [][Called("patchdel") =>
        \A addr \in PatchAddrs :
            modhashfromva(addr) \in DOMAIN patches =>
                \A wok \in BOOLEAN :
                    patchdel(addr, TRUE, wok) =>
                        /\ writes' = <<[addr |-> addr,
                                        val  |-> patches[modhashfromva(addr)].oldbyte]>>
                        /\ modhashfromva(addr) \notin DOMAIN patches']_vars

\* C19 (amended): with a session active, patchdel(addr, true) on an address
\* that has a record issues exactly one write, of the record's oldbyte, at
\* addr itself, which is the record's offset plus the current base of addr's
\* module, and removes the record whatever the write's result.
C19_RestoreOneByte ==
    [][(Called("patchdel") /\ debugging) =>
        \A addr \in PatchAddrs :
            modhashfromva(addr) \in DOMAIN patches =>
                \A wok \in BOOLEAN :
                    patchdel(addr, TRUE, wok) =>
                        /\ writes' = <<[addr |-> addr,
                                        val  |-> patches[modhashfromva(addr)].oldbyte]>>
                        /\ addr = patches[modhashfromva(addr)].addr + base[ModOf(addr)]
                        /\ modhashfromva(addr) \notin DOMAIN patches']_vars

\* C19 happens: a delete with restore wrote one byte back into app.exe
\* while app.exe was loaded at its second base.
C19_Witness ==
    /\ pc = <<"patchdel", 110>>
    /\ Len(writes) = 1
    /\ nErased = 1
    /\ ModOf(writes[1].addr) = "app.exe"
    /\ base["app.exe"] # Min(LoadBases("app.exe"))

\* C20: every record written by a patchenum fill has the stored offset plus
\* the current base of the module of that name as its address and the other
\* fields as stored, one record per ledger record, and the ledger itself is
\* not modified.
C20_FillRehydrates ==
    [][(Called("patchenum") /\ debugging) =>
        \A c \in BOOLEAN :
            patchenum(TRUE, c) =>
                /\ patches' = patches
                /\ Len(out') = Size(patches)
                /\ \A j \in 1 .. Len(out') :
                      LET rec == patches[KeySeq(DOMAIN patches)[j]]
                      IN  /\ out'[j].addr = rec.addr + base[rec.mod]
                          /\ out'[j].mod = rec.mod
                          /\ out'[j].oldbyte = rec.oldbyte
                          /\ out'[j].newbyte = rec.newbyte]_vars

\* C20 happens: a fill handed out a record whose module has moved since the
\* record was set.
C20_Witness ==
    /\ pc = <<"patchenum", 201>>
    /\ out # <<>>
    /\ \E k \in DOMAIN patches : chain[k].base # base[patches[k].mod]

Spec == Init /\ [][Next]_vars
SpecFile == InitFile /\ [][NextFile]_vars
====
